---- MODULE Spec2Model ----
\* Model of evaluation_dataset_preprocessor
\* (_implementation/model_evaluation/llm_evaluation_preprocessor/component.py).
\*
\* Three specifications share the variables:
\*   Spec       the batch driver (two successive invocations on one store),
\*              on a store that accepts every write;
\*   SpecFault  the same driver on a store where some destination paths
\*              refuse writes;
\*   SpecLine   the per-line transform (expansion and normalisation) applied
\*              to one decoded JSON value drawn from a bounded universe.
EXTENDS Naturals, Sequences, FiniteSets, TLC

VARIABLES
  sources,      \* gcs_source_uris: the input list of the invocation
  denied,       \* destination paths on which write_text raises (environment)
  fs,           \* the object store: path -> [exists, lines]
  output_dirs,  \* the in-progress manifest (a list of strings)
  idx,          \* position of the loop of line 93: sources taken up so far
  pc,           \* "start", "loop" or "done"
  outcome,      \* "running", "ok", "raised" (exception reaches caller), "exit13"
  exc,          \* the exception that ended the invocation, if any
  log,          \* the reads and writes issued by the current invocation
  run,          \* 1 or 2: which of the successive invocations is running
  snap,         \* store and outcome as the first invocation left them
  lpc,          \* SpecLine: "in" or "out"
  lineIn,       \* SpecLine: the decoded value of the line
  lineOut       \* SpecLine: result of the per-line transform

vars == <<sources, denied, fs, output_dirs, idx, pc, outcome, exc, log, run,
          snap, lpc, lineIn, lineOut>>

batchVars == <<sources, denied, fs, output_dirs, idx, pc, outcome, exc, log,
               run, snap>>

lineVars == <<lpc, lineIn, lineOut>>

\* ------------------------------------------------------------------ bounds

MaxSources == 2

MaxItems == 2

\* --------------------------------------------------------------- constants

GCS_ROOT_PREFIX == "/gcs/"

GS_PREFIX == "gs://"

INPUT_TEXT_KEY == "input_text"

DATA_KEY == "data"

PROMPT_KEY == "prompt"

\* ------------------------------------------------------------- JSON values
\* What json.loads returns: str, a non-container scalar (number, true,
\* false, null), list, dict.

Str(x) == [t |-> "str", s |-> x]

Scalar == [t |-> "num"]

List(xs) == [t |-> "list", items |-> xs]

Obj(f) == [t |-> "obj", f |-> f]

Range(sq) == {sq[i] : i \in 1..Len(sq)}

\* Characters of the strings of the model's universe (iteration over a str).
Chars(s) ==
  CASE s = "ab" -> <<"a", "b">>
    [] s = ""   -> <<>>
    [] OTHER    -> <<s>>

\* Keys of a dict in a fixed order (iteration over a dict yields its keys).
KeyOrder == <<PROMPT_KEY, INPUT_TEXT_KEY, DATA_KEY, "tag">>

KeysOf(f) == SelectSeq(KeyOrder, LAMBDA k : k \in DOMAIN f)

\* `key in v` of Python.  For a str it is the substring test; no string of
\* the universe properly contains "prompt" or "input_text".
\* Result: "yes", "no" or "TypeError".
Contains(v, key) ==
  CASE v.t = "obj"  -> IF key \in DOMAIN v.f THEN "yes" ELSE "no"
    [] v.t = "str"  -> IF v.s = key THEN "yes" ELSE "no"
    [] v.t = "list" -> IF Str(key) \in Range(v.items) THEN "yes" ELSE "no"
    [] OTHER        -> "TypeError"

\* json_instance.get(DATA_KEY, [json_instance]) followed by iter():
\* [err, recs].
RawRecords(v) ==
  IF v.t # "obj" THEN [err |-> "AttributeError", recs |-> <<>>]
  ELSE IF DATA_KEY \notin DOMAIN v.f THEN [err |-> "none", recs |-> <<v>>]
  ELSE LET d == v.f[DATA_KEY] IN
    CASE d.t = "list" -> [err |-> "none", recs |-> d.items]
      [] d.t = "str"  ->
           [err |-> "none",
            recs |-> [i \in 1..Len(Chars(d.s)) |-> Str(Chars(d.s)[i])]]
      [] d.t = "obj"  ->
           [err |-> "none",
            recs |-> [i \in 1..Len(KeysOf(d.f)) |-> Str(KeysOf(d.f)[i])]]
      [] OTHER        -> [err |-> "TypeError", recs |-> <<>>]

\* data_obj[PROMPT_KEY] = data_obj[INPUT_TEXT_KEY] on a dict.
SetPrompt(f) ==
  [k \in DOMAIN f \cup {PROMPT_KEY} |->
     IF k = PROMPT_KEY THEN f[INPUT_TEXT_KEY] ELSE f[k]]

\* Normalize with the test for an existing prompt left out.
NormalizeMut(v) ==
  LET hasInput == Contains(v, INPUT_TEXT_KEY)
  IN  IF hasInput = "TypeError" THEN [err |-> "TypeError", rec |-> v]
      ELSE IF hasInput = "yes"
           THEN IF v.t = "obj"
                THEN [err |-> "none", rec |-> Obj(SetPrompt(v.f))]
                ELSE [err |-> "TypeError", rec |-> v]
           ELSE [err |-> "none", rec |-> v]

\* Lines 72-73 for one data_obj: [err, rec].
Normalize(v) ==
  LET hasPrompt == Contains(v, PROMPT_KEY)
      hasInput  == Contains(v, INPUT_TEXT_KEY)
  IN  IF hasPrompt = "TypeError" THEN [err |-> "TypeError", rec |-> v]
      ELSE IF hasPrompt = "no" /\ hasInput = "yes"
           THEN IF v.t = "obj"
                THEN [err |-> "none", rec |-> Obj(SetPrompt(v.f))]
                ELSE [err |-> "TypeError", rec |-> v]
           ELSE [err |-> "none", rec |-> v]

\* ------------------------------------------------------------------- text
\* A line of a file after strip(): blank, text that is not JSON, or a JSON
\* text.  canon tells whether the text is byte for byte what json.dumps
\* prints for the value.

BlankLine == [kind |-> "blank", canon |-> FALSE, val |-> Scalar]

BadLine == [kind |-> "bad", canon |-> FALSE, val |-> Scalar]

JsonLine(v, c) == [kind |-> "json", canon |-> c, val |-> v]

\* json.dumps(v, ensure_ascii=False)
Dumps(v) == JsonLine(v, TRUE)

\* json.loads(line): [err, val]
Loads(line) ==
  IF line.kind = "json" THEN [err |-> "none", val |-> line.val]
  ELSE [err |-> "JSONDecodeError", val |-> Scalar]

\* ------------------------------------------------------------ transcoding

\* The inner loop (lines 71-75) over the raw records of one line, from
\* record i on: [err, out] with out the dumped lines appended to content.
RECURSIVE NormalizeFrom(_, _)
NormalizeFrom(recs, i) ==
  IF i > Len(recs) THEN [err |-> "none", out |-> <<>>]
  ELSE LET r == Normalize(recs[i]) IN
    IF r.err # "none" THEN [err |-> r.err, out |-> <<>>]
    ELSE LET rest == NormalizeFrom(recs, i + 1) IN
      IF rest.err # "none" THEN rest
      ELSE [err |-> "none", out |-> <<Dumps(r.rec)>> \o rest.out]

\* Lines 65-75 for one line of the file: [err, out].
TranscodeLine(line) ==
  IF line.kind = "blank" THEN [err |-> "none", out |-> <<>>]
  ELSE LET j == Loads(line) IN
    IF j.err # "none" THEN [err |-> j.err, out |-> <<>>]
    ELSE LET raw == RawRecords(j.val) IN
      IF raw.err # "none" THEN [err |-> raw.err, out |-> <<>>]
      ELSE NormalizeFrom(raw.recs, 1)

\* The outer loop (lines 64-75) from line i on: [err, out].
RECURSIVE TranscodeFrom(_, _)
TranscodeFrom(lines, i) ==
  IF i > Len(lines) THEN [err |-> "none", out |-> <<>>]
  ELSE LET r == TranscodeLine(lines[i]) IN
    IF r.err # "none" THEN r
    ELSE LET rest == TranscodeFrom(lines, i + 1) IN
      IF rest.err # "none" THEN rest
      ELSE [err |-> "none", out |-> r.out \o rest.out]

\* content and num_entries when the loop of lines 64-75 ends: one dumped
\* line per record, so num_entries is the number of lines of content.
Transcode(lines) ==
  LET r == TranscodeFrom(lines, 1)
  IN  [err |-> r.err, content |-> r.out, num_entries |-> Len(r.out)]

\* ------------------------------------------------------------------ paths

Path(d, n) == [dir |-> d, name |-> n]

\* The locations the elements of gcs_source_uris are drawn from: two
\* directories of datasets, and the destination directory itself.
SourcePaths ==
  {Path("in", "a"), Path("in2", "a"), Path("in", "b"), Path("in", "m"),
   Path("out", "a")}

\* output_path = epath.Path(output_dirs): where the manifest is persisted.
ManifestPath == Path("out", "m")

\* output_path.parent / input_path.name
OutputFilePath(src, output_path) == Path(output_path.dir, src.name)

\* str(path) of a path under the /gcs/ mount.
PathStr(p) == GCS_ROOT_PREFIX \o p.dir \o "/" \o p.name

\* str(output_file_path).replace(GCS_ROOT_PREFIX, GS_PREFIX, 1)
GsUri(p) == GS_PREFIX \o p.dir \o "/" \o p.name

\* AppendDir inserting at the front.
AppendDirMut(dirs, p) == <<GsUri(p)>> \o dirs

\* output_dirs.append(...)
AppendDir(dirs, p) == Append(dirs, GsUri(p))

\* ManifestText without the json.dumps of an empty list.
ManifestTextMut(dirs) ==
  IF dirs = <<>> THEN <<>>
  ELSE <<Dumps(List([i \in 1..Len(dirs) |-> Str(dirs[i])]))>>

\* json.dumps(output_dirs) as the text of the manifest file.
ManifestText(dirs) ==
  <<Dumps(List([i \in 1..Len(dirs) |-> Str(dirs[i])]))>>

DestPaths == {Path("out", "a"), Path("out", "b"), Path("out", "m")}

AllPaths == SourcePaths \cup DestPaths

\* ------------------------------------------------------------------ store

Absent == [exists |-> FALSE, lines |-> <<>>]

File(lines) == [exists |-> TRUE, lines |-> lines]

\* WriteText appending to what the path already holds.
WriteTextMut(fsys, p, lines) ==
  [fsys EXCEPT ![p] = File(fsys[p].lines \o lines)]

\* path.write_text(text)
WriteText(fsys, p, lines) == [fsys EXCEPT ![p] = File(lines)]

\* ------------------------------------------------------------- exceptions

NoExc == [type |-> "none", at |-> 0, uri |-> ""]

\* at: position in the input list of the source being processed (0: none);
\* uri: the dataset URI named by the message, "" when it names none.
Exc(type, at, uri) == [type |-> type, at |-> at, uri |-> uri]

\* isinstance(e, ValueError): json.JSONDecodeError derives from ValueError.
IsValueError(type) == type \in {"ValueError", "JSONDecodeError"}

\* Handler without the re-raise of ValueError.
HandlerMut(e) == "exit13"

\* The except clause, lines 99-103.
Handler(e) == IF IsValueError(e.type) THEN "raised" ELSE "exit13"

\* PcAfter with the exception swallowed inside the loop.
PcAfterMut(e, next) == next

\* Control after a statement of the try block: an exception leaves the
\* block, anything else goes on with the next statement.
PcAfter(e, next) == IF e.type = "none" THEN next ELSE "done"

Event(op, src, p, n, body) ==
  [op |-> op, src |-> src, path |-> p, n |-> n, body |-> body]

\* ----------------------------------------------------------------- inputs

RecIn == Obj([k \in {INPUT_TEXT_KEY} |-> Str("q")])

RecPrompt == Obj([k \in {PROMPT_KEY} |-> Str("p")])

RecBoth ==
  Obj([k \in {PROMPT_KEY, INPUT_TEXT_KEY} |->
         IF k = PROMPT_KEY THEN Str("p") ELSE Str("q")])

RecTag == Obj([k \in {"tag"} |-> Str("t")])

\* A record that itself carries a data list.
RecNest ==
  Obj([k \in {DATA_KEY, "tag"} |->
         IF k = DATA_KEY THEN List(<<RecPrompt>>) ELSE Str("t")])

Agg(items) == Obj([k \in {DATA_KEY} |-> List(items)])

\* The dataset files the sources may hold.
Corpus ==
  { <<>>,
    <<BlankLine, BlankLine>>,
    <<JsonLine(RecIn, FALSE)>>,
    <<JsonLine(RecBoth, TRUE), BlankLine, JsonLine(RecTag, FALSE)>>,
    <<JsonLine(Agg(<<RecIn, RecPrompt>>), FALSE)>>,
    <<JsonLine(Agg(<<>>), TRUE)>>,
    <<JsonLine(RecIn, FALSE), BadLine>>,
    <<JsonLine(Agg(<<RecNest>>), TRUE)>>,
    <<JsonLine(Obj([k \in {DATA_KEY} |-> Str("ab")]), FALSE)>>,
    <<JsonLine(Scalar, TRUE)>> }

SeqsUpTo(S, n) == UNION {[1..k -> S] : k \in 0..n}

\* A store holding the given files at the paths of the input list and
\* nothing elsewhere; a source may also be missing.
InitBatch(files, denials) ==
  /\ sources \in SeqsUpTo(SourcePaths, MaxSources)
  /\ denied \in denials
  /\ \E c \in [Range(sources) -> {File(f) : f \in files} \cup {Absent}] :
       fs = [p \in AllPaths |-> IF p \in Range(sources) THEN c[p] ELSE Absent]
  /\ output_dirs = <<>>
  /\ idx = 0
  /\ pc = "start"
  /\ outcome = "running"
  /\ exc = NoExc
  /\ log = <<>>
  /\ run = 1
  /\ snap = [fs |-> [p \in AllPaths |-> Absent], outcome |-> "running"]

InitLineIdle ==
  /\ lpc = "idle"
  /\ lineIn = Scalar
  /\ lineOut = [err |-> "none", raw |-> <<>>, out |-> <<>>]

Init == InitBatch(Corpus, {{}}) /\ InitLineIdle

InitFault == InitBatch(Corpus, SUBSET DestPaths) /\ InitLineIdle

\* ---------------------------------------------------------------- actions

\* The statement ends the invocation with exception e (lines 99-103).
Raise(e) ==
  /\ exc' = e
  /\ outcome' = Handler(e)
  /\ pc' = "done"

\* Lines 87-92: the empty-input write and the rebinding of output_dirs.
Start ==
  /\ pc = "start"
  /\ IF sources = <<>> /\ ManifestPath \in denied
     THEN /\ Raise(Exc("OSError", 0, ""))
          /\ UNCHANGED <<fs, output_dirs, log>>
     ELSE /\ IF sources = <<>>
             THEN /\ fs' = WriteText(fs, ManifestPath, ManifestText(<<>>))
                  /\ log' = Append(log, Event("manifest", 0, ManifestPath,
                                              0, ManifestText(<<>>)))
             ELSE UNCHANGED <<fs, log>>
          /\ output_dirs' = <<>>
          /\ pc' = "loop"
          /\ UNCHANGED <<outcome, exc>>
  /\ UNCHANGED <<sources, denied, idx, run, snap, lineVars>>

\* One iteration of the loop of lines 93-95: the whole of preprocess_file
\* (lines 57-85) on the next source.
ProcessFile ==
  /\ pc = "loop"
  /\ idx < Len(sources)
  /\ LET i    == idx + 1
         src  == sources[i]
         out  == OutputFilePath(src, ManifestPath)
         rd   == Event("read", i, src, 0, fs[src].lines)
         r    == Transcode(fs[src].lines)
         wr   == Event("write", i, out, r.num_entries, r.content)
         e    == IF ~fs[src].exists THEN Exc("FileNotFoundError", i, "")
                 ELSE IF r.err # "none" THEN Exc(r.err, i, "")
                 ELSE IF out \in denied THEN Exc("OSError", i, "")
                 ELSE IF 0 = r.num_entries
                      THEN Exc("ValueError", i, PathStr(src))
                 ELSE NoExc
         wrote == fs[src].exists /\ r.err = "none" /\ out \notin denied
     IN  /\ fs' = IF wrote THEN WriteText(fs, out, r.content) ELSE fs
         /\ log' = IF wrote THEN log \o <<rd, wr>> ELSE Append(log, rd)
         /\ pc' = PcAfter(e, "loop")
         /\ IF e.type # "none"
            THEN /\ exc' = e
                 /\ outcome' = Handler(e)
            ELSE UNCHANGED <<exc, outcome>>
         /\ output_dirs' = IF e.type = "none"
                           THEN AppendDir(output_dirs, out)
                           ELSE output_dirs
         /\ idx' = i
  /\ UNCHANGED <<sources, denied, run, snap, lineVars>>

\* Lines 97-98: the manifest is persisted after the loop.
Finish ==
  /\ pc = "loop"
  /\ idx >= Len(sources)
  /\ IF ManifestPath \in denied
     THEN /\ Raise(Exc("OSError", 0, ""))
          /\ UNCHANGED <<fs, log>>
     ELSE /\ fs' = WriteText(fs, ManifestPath, ManifestText(output_dirs))
          /\ log' = Append(log, Event("manifest", 0, ManifestPath,
                                      Len(output_dirs),
                                      ManifestText(output_dirs)))
          /\ pc' = "done"
          /\ outcome' = "ok"
          /\ UNCHANGED exc
  /\ UNCHANGED <<sources, denied, output_dirs, idx, run, snap, lineVars>>

\* The caller runs the component a second time on the same list of
\* sources and the same destination, on the store as the first run left it.
Rerun ==
  /\ pc = "done"
  /\ run = 1
  /\ snap' = [fs |-> fs, outcome |-> outcome]
  /\ run' = 2
  /\ pc' = "start"
  /\ outcome' = "running"
  /\ exc' = NoExc
  /\ log' = <<>>
  /\ output_dirs' = <<>>
  /\ idx' = 0
  /\ UNCHANGED <<sources, denied, fs, lineVars>>

Next == Start \/ ProcessFile \/ Finish \/ Rerun

Spec == Init /\ [][Next]_vars

NextFault == Start \/ ProcessFile \/ Finish

SpecFault == InitFault /\ [][NextFault]_vars

TypeOK ==
  /\ pc \in {"start", "loop", "done", "idle"}
  /\ outcome \in {"running", "ok", "raised", "exit13"}
  /\ idx \in 0..Len(sources)
  /\ run \in {1, 2}

\* ------------------------------------------------- the per-line transform

LeafRecs ==
  { Obj([k \in ks |-> IF k = PROMPT_KEY THEN Str("p")
                      ELSE IF k = INPUT_TEXT_KEY THEN Str("q") ELSE Str("t")])
      : ks \in SUBSET {PROMPT_KEY, INPUT_TEXT_KEY, "tag"} }

\* What a data list may hold.
Items == LeafRecs \cup {RecNest, Str("x"), Str(INPUT_TEXT_KEY), Scalar}

\* What the data field may hold.
DataValues ==
  {List(xs) : xs \in SeqsUpTo(Items, MaxItems)}
    \cup {Str("ab"), Str(""), Scalar, RecIn, RecBoth}

WithData(f, d) == [k \in DOMAIN f \cup {DATA_KEY} |-> IF k = DATA_KEY THEN d ELSE f[k]]

\* What a non-blank line may decode to.
LineValues ==
  LeafRecs
    \cup {Obj(WithData(r.f, d)) : r \in {Obj(<<>>), RecTag, RecIn}, d \in DataValues}
    \cup {Scalar, Str("p"), List(<<RecIn>>)}

InitBatchIdle ==
  /\ sources = <<>>
  /\ denied = {}
  /\ fs = [p \in AllPaths |-> Absent]
  /\ output_dirs = <<>>
  /\ idx = 0
  /\ pc = "idle"
  /\ outcome = "running"
  /\ exc = NoExc
  /\ log = <<>>
  /\ run = 1
  /\ snap = [fs |-> [p \in AllPaths |-> Absent], outcome |-> "running"]

InitLine ==
  /\ InitBatchIdle
  /\ lpc = "in"
  /\ lineIn \in LineValues
  /\ lineOut = [err |-> "none", raw |-> <<>>, out |-> <<>>]

\* Line 71: the raw records of the decoded line.
ExpandLine ==
  /\ lpc = "in"
  /\ LET raw == RawRecords(lineIn)
     IN  /\ lineOut' = [err |-> raw.err, raw |-> raw.recs, out |-> <<>>]
         /\ lpc' = IF raw.err = "none" THEN "raw" ELSE "out"
  /\ UNCHANGED <<lineIn, batchVars>>

\* Lines 72-75 over the raw records: the lines appended to content.
NormalizeLine ==
  /\ lpc = "raw"
  /\ LET r == NormalizeFrom(lineOut.raw, 1)
     IN  lineOut' = [err |-> r.err, raw |-> lineOut.raw, out |-> r.out]
  /\ lpc' = "out"
  /\ UNCHANGED <<lineIn, batchVars>>

NextLine == ExpandLine \/ NormalizeLine

SpecLine == InitLine /\ [][NextLine]_vars

\* ================================================================= claims

WriteEvents == {k \in 1..Len(log) : log[k].op = "write"}

ReadEvents == {k \in 1..Len(log) : log[k].op = "read"}

\* The output location of the i-th source.
OutOf(i) == OutputFilePath(sources[i], ManifestPath)

\* C1: for every input file that was read and whose lines were all
\* transcoded, an output file is written for it if and only if the file
\* yielded at least one normalized record.
C1_OutputIffRecords ==
  \A k \in ReadEvents :
    LET r == Transcode(log[k].body)
    IN  (fs[log[k].path].exists /\ r.err = "none") =>
          ((\E w \in WriteEvents : log[w].src = log[k].src)
             <=> r.num_entries >= 1)

\* C2: a line that fails to decode as JSON ends the invocation on the
\* status-13 path, never on the propagated-exception path.
C2_DecodeFailureExits13 ==
  exc.type = "JSONDecodeError" => outcome = "exit13"

C4_AbortAtFirstError ==
  exc.at > 0 =>
    /\ pc = "done"
    /\ \A k \in 1..Len(log) : log[k].src <= exc.at /\ log[k].op # "manifest"

\* The write of the first of two sources is refused.
C4_Witness ==
  /\ Len(sources) = 2
  /\ exc.at = 1
  /\ exc.type = "OSError"
  /\ fs[sources[2]].exists

\* C5: the in-progress manifest never has more entries than there are
\* sources, its entries are the output locations of the sources processed
\* so far in input order, and a persisted manifest lists the outputs of all
\* the sources in input order.
C5_ManifestInInputOrder ==
  /\ Len(output_dirs) <= Len(sources)
  /\ pc = "loop" => Len(output_dirs) = idx
  /\ \A i \in 1..Len(output_dirs) :
       output_dirs[i] = GS_PREFIX \o "out/" \o sources[i].name
  /\ (pc = "done" /\ outcome = "ok") =>
       fs[ManifestPath].lines =
         <<JsonLine(List([i \in 1..Len(sources) |->
                            Str(GS_PREFIX \o "out/" \o sources[i].name)]),
                    TRUE)>>

\* Two sources with different outputs, the first yielding more records
\* than the second, and the manifest persisted.
C5_Witness ==
  /\ pc = "done"
  /\ outcome = "ok"
  /\ Len(sources) = 2
  /\ sources[1].name # sources[2].name
  /\ \E j, k \in WriteEvents :
       log[j].src = 1 /\ log[k].src = 2 /\ log[j].n > log[k].n

\* C6: the raw records of a decoded object are the elements of its data
\* field when that field holds a list, and the object itself in every other
\* case.
C6_RawRecordsOfLine ==
  (lpc \in {"raw", "out"} /\ lineIn.t = "obj") =>
    IF DATA_KEY \in DOMAIN lineIn.f /\ lineIn.f[DATA_KEY].t = "list"
    THEN lineOut.raw = lineIn.f[DATA_KEY].items
    ELSE lineOut.raw = <<lineIn>>

\* C7: a record without prompt and with input_text is emitted with prompt
\* added, equal to input_text, and everything else as it was; any other
\* record is emitted unchanged.
C7_NormalizeRecord ==
  (lpc = "out" /\ lineOut.err = "none") =>
    /\ Len(lineOut.out) = Len(lineOut.raw)
    /\ \A i \in 1..Len(lineOut.raw) :
         lineOut.raw[i].t = "obj" =>
           LET in == lineOut.raw[i].f
               em == lineOut.out[i].val
           IN  /\ lineOut.out[i].kind = "json"
               /\ em.t = "obj"
               /\ IF PROMPT_KEY \notin DOMAIN in /\ INPUT_TEXT_KEY \in DOMAIN in
                  THEN /\ DOMAIN em.f = DOMAIN in \cup {PROMPT_KEY}
                       /\ em.f[PROMPT_KEY] = in[INPUT_TEXT_KEY]
                       /\ \A k \in DOMAIN in : em.f[k] = in[k]
                  ELSE em.f = in

\* A line whose data list holds a record that gets its prompt from
\* input_text and a record that has both fields.
C7_Witness ==
  /\ lpc = "out"
  /\ lineOut.err = "none"
  /\ \E i, j \in 1..Len(lineOut.raw) :
       /\ lineOut.raw[i].t = "obj"
       /\ lineOut.raw[j].t = "obj"
       /\ DOMAIN lineOut.raw[i].f = {INPUT_TEXT_KEY, "tag"}
       /\ DOMAIN lineOut.raw[j].f = {PROMPT_KEY, INPUT_TEXT_KEY}

\* C8: with no sources the invocation reads no source, writes no output
\* file, fails in neither way and ends with the manifest `[]` persisted.
C8_EmptySources ==
  (sources = <<>> /\ pc # "idle") =>
    /\ outcome \in {"running", "ok"}
    /\ \A k \in 1..Len(log) : log[k].op = "manifest"
    /\ pc = "done" =>
         /\ outcome = "ok"
         /\ fs[ManifestPath] = File(<<JsonLine(List(<<>>), TRUE)>>)
         /\ \A p \in AllPaths \ {ManifestPath} : ~fs[p].exists

C8_Witness == sources = <<>> /\ pc = "done" /\ run = 1

\* No source's output location is the location of a source of the list.
NoAlias ==
  \A i, j \in 1..Len(sources) : OutOf(i) # sources[j]

\* C9 as stated: after a second run on the same sources and destination
\* the store (output files and manifest) is as the first run left it,
\* also when a source lives in the destination directory.
C9_SecondRunIdentical ==
  (run = 2 /\ pc = "done") => fs = snap.fs

\* C9 amended: the same when no source's output path is the path of a
\* source of the list; the second run then also ends as the first did.
C9_SecondRunIdenticalNoAlias ==
  (run = 2 /\ pc = "done" /\ NoAlias) =>
    fs = snap.fs /\ outcome = snap.outcome

\* A second run over two sources outside the destination directory that
\* wrote both outputs and the manifest.
C9_Witness ==
  /\ run = 2
  /\ pc = "done"
  /\ NoAlias
  /\ outcome = "ok"
  /\ Len(sources) = 2
  /\ sources[1].name # sources[2].name

PathOfUri(u) == CHOOSE p \in AllPaths : GsUri(p) = u

BodyOf(i) == log[CHOOSE k \in WriteEvents : log[k].src = i].body

\* C10: after a successful run the manifest has one entry per source and
\* the file at the i-th entry holds the normalized records of the i-th
\* source.
C10_ManifestFilesHoldRecords ==
  (pc = "done" /\ outcome = "ok") =>
    /\ Len(output_dirs) = Len(sources)
    /\ \A i \in 1..Len(sources) :
         fs[PathOfUri(output_dirs[i])].lines = BodyOf(i)

====
